---- MODULE Spec2Model ----
(***************************************************************************)
(* Model of scripts/scrape-documents.ts: the resumable, rate-aware batch   *)
(* fetch loop of the court-auction delivery/document scraper.              *)
(*                                                                         *)
(* Durable state: the record store file (court-auction-details.json) and   *)
(* the checkpoint file (temp/progress.json).  One process runs at a time;  *)
(* a run is main() from launch to process exit.  pc is the statement the   *)
(* process is suspended at (every await and every file write is a step).   *)
(***************************************************************************)
EXTENDS Integers, Sequences, FiniteSets, TLC

\* ---------------------------------------------------------------- bounds
MaxItems == 2       \* entries in the record store
MaxFaults == 1      \* exceptions the environment raises within one run
MaxFetches == 6     \* fetch attempts within one run

\* ------------------------------------------------------ program constants
MAX_CONSECUTIVE_BLOCKS == 5
BATCH_REST_INTERVAL == 50
SAVE_INTERVAL == 10

\* ----------------------------------------------------------- optionals
\* A JavaScript value that may be undefined: {} is undefined, {v} is v.
None == {}
Some(v) == {v}
The(o) == CHOOSE v \in o : TRUE

Min(a, b) == IF a <= b THEN a ELSE b
SetMax(S) == CHOOSE m \in S : \A n \in S : n <= m
Range(s) == {s[k] : k \in 1..Len(s)}

\* ------------------------------------------------------------- entries
\* Entry p of a record store of n entries has case number n + 1 - p, so
\* store order is not key order; even positions carry a non-empty
\* investigation record ("advanced"), odd ones none ("early").
FreshEntry(n, p) ==
    [cortOfcCd       |-> <<0>>,
     csNo            |-> <<n + 1 - p>>,
     courtName       |-> "court",
     investigation   |-> IF p % 2 = 0 THEN Some({"exmn"}) ELSE None,
     deliveryRecords |-> None,
     documentRecords |-> None,
     mergerRecords   |-> None,
     priorCaseInfo   |-> None]

\* const key = d.cortOfcCd + d.csNo
Key(d) == d.cortOfcCd \o d.csNo

\* Bodies the upstream can answer a successful request with (json.data).
Payloads ==
    { [dlt_dlvrDtsLst     |-> Some(<<"dlv1">>),
       dlt_ofdocDtsLst    |-> Some(<<"doc1", "doc2">>),
       dlt_mrgDpcnSbxLst  |-> Some(<<>>),
       dma_trnscsBfCsInfo |-> None],
      [dlt_dlvrDtsLst     |-> None,
       dlt_ofdocDtsLst    |-> Some(<<"doc3">>),
       dlt_mrgDpcnSbxLst  |-> Some(<<"mrg1">>),
       dma_trnscsBfCsInfo |-> Some({"csNo"})] }

\* What one call of scrapeDocuments meets: an HTTP response, a network
\* failure inside the page, or page.evaluate itself rejecting.
Responses ==
    [kind : {"response"}, parseable : BOOLEAN, blockMessage : BOOLEAN,
     ipcheckFalse : BOOLEAN, status : {200, 500, 550}, data : Payloads]
    \cup [kind : {"neterror", "evalthrow"}, parseable : {FALSE},
          blockMessage : {FALSE}, ipcheckFalse : {FALSE}, status : {0},
          data : {CHOOSE p \in Payloads : TRUE}]

\* The value scrapeDocuments resolves to (kind # "evalthrow").
NoMarks(data) == [blocked |-> FALSE, nodata |-> FALSE, error |-> FALSE, data |-> data]

scrapeDocuments_StatusFirst(r) ==
    IF r.kind = "neterror" THEN [NoMarks(r.data) EXCEPT !.error = TRUE]
    ELSE IF ~r.parseable THEN [NoMarks(r.data) EXCEPT !.error = TRUE]
    ELSE IF r.status = 550 THEN [NoMarks(r.data) EXCEPT !.nodata = TRUE]
    ELSE IF r.status # 200 THEN [NoMarks(r.data) EXCEPT !.error = TRUE]
    ELSE IF r.blockMessage \/ r.ipcheckFalse THEN [NoMarks(r.data) EXCEPT !.blocked = TRUE]
    ELSE NoMarks(r.data)

\* Lines 58-85.
scrapeDocuments(r) ==
    IF r.kind = "neterror" THEN [NoMarks(r.data) EXCEPT !.error = TRUE]
    ELSE IF ~r.parseable THEN [NoMarks(r.data) EXCEPT !.error = TRUE]
    ELSE IF r.blockMessage \/ r.ipcheckFalse THEN [NoMarks(r.data) EXCEPT !.blocked = TRUE]
    ELSE IF r.status = 550 THEN [NoMarks(r.data) EXCEPT !.nodata = TRUE]
    ELSE IF r.status # 200 THEN [NoMarks(r.data) EXCEPT !.error = TRUE]
    ELSE NoMarks(r.data)

OutcomeTag(res) ==
    IF res.blocked THEN "Blocked"
    ELSE IF res.nodata THEN "NoData"
    ELSE IF res.error THEN "Error"
    ELSE "Success"

\* ---------------------------------------------------------------- state
VARIABLES
    detailsFile,        \* court-auction-details.json
    progressFile,       \* temp/progress.json, None when it does not exist
    RESUME, TEST_MODE,  \* command line flags of the current run
    rawIsArray,         \* Array.isArray(rawData)
    details,            \* in-memory record store
    progress,           \* in-memory checkpoint
    targets,            \* pending list: positions in details
    i,                  \* loop index (0-based)
    success, errors, consecutiveBlocks, stats,
    pc, exitStatus,
    exitPath,           \* history: how the last process ended
    fetchLog,           \* history: the fetches of the current run (see Settle)
    since,              \* history: pauses and refreshes completed since the last fetch returned
    atLaunch,           \* history: both files as the current run found them
    faults              \* history: exceptions raised in the current run

vars == <<detailsFile, progressFile, RESUME, TEST_MODE, rawIsArray, details,
          progress, targets, i, success, errors, consecutiveBlocks, stats,
          pc, exitStatus, exitPath, fetchLog, since, atLaunch, faults>>

durable == <<detailsFile, progressFile>>
flags == <<RESUME, TEST_MODE, rawIsArray>>
counters == <<success, errors, consecutiveBlocks, stats>>

\* ------------------------------------------------------- pure functions
\* Object.values(rawData) (an array is taken as it is).
ObjectValues(raw) == raw.vals

EmptyProgress == [completed |-> <<>>, total |-> 0]

loadProgress_NeverLoads(resume, file) == EmptyProgress

\* What fs.writeFileSync leaves when the process dies after the file was
\* truncated and before the text was written out: not a JSON document.
TornProgress == [completed |-> <<>>, total |-> 0, torn |-> TRUE]

Torn(file) == file # None /\ "torn" \in DOMAIN The(file)

\* Lines 89-99.
loadProgress(resume, file) ==
    IF resume /\ file # None THEN The(file) ELSE EmptyProgress

Positions(ds) == [k \in 1..Len(ds) |-> k]

IsTarget_IgnoreCheckpoint(d, completedSet) ==
    d.deliveryRecords = None

IsTarget_IgnoreMarker(d, completedSet) ==
    Key(d) \notin completedSet

\* The filter of lines 130-135.
IsTarget(d, completedSet) ==
    /\ Key(d) \notin completedSet
    /\ d.deliveryRecords = None

IsAdvanced(d) ==
    d.investigation # None /\ Cardinality(The(d.investigation)) > 0

\* A sampling that takes every item.
slice_NoLimit(s, n) == s

slice(s, n) == SubSeq(s, 1, Min(n, Len(s)))

SelectTargets(ds, completedSet, test) ==
    LET all == SelectSeq(Positions(ds), LAMBDA k : IsTarget(ds[k], completedSet))
        advanced == SelectSeq(all, LAMBDA k : IsAdvanced(ds[k]))
        early == SelectSeq(all, LAMBDA k : ~IsAdvanced(ds[k]))
    IN IF test THEN slice(advanced, 3) \o slice(early, 2) ELSE all

\* A map in which no key is found.
detailMapGet_Misses(ds, key) == 0

\* detailMap.get(key): the last entry set under the key; 0 is "no entry".
detailMapGet(ds, key) ==
    LET hits == {k \in 1..Len(ds) : Key(ds[k]) = key}
    IN IF hits = {} THEN 0 ELSE SetMax(hits)

\* What saveDetails writes.
SavedDetails(isArray, ds) ==
    IF isArray
    THEN [isArray |-> TRUE, keys |-> <<>>, vals |-> ds]
    ELSE [isArray |-> FALSE, keys |-> [k \in 1..Len(ds) |-> <<k - 1>>], vals |-> ds]

OrEmpty(o) == IF o = None THEN <<>> ELSE The(o)

Merge_SuccessAsEmpty(entry, res) ==
    [entry EXCEPT !.deliveryRecords = Some(<<>>), !.documentRecords = Some(<<>>)]

Merge_AlwaysWritesOptional(entry, res) ==
    IF res.nodata \/ res.error
    THEN [entry EXCEPT !.deliveryRecords = Some(<<>>), !.documentRecords = Some(<<>>)]
    ELSE [entry EXCEPT
            !.deliveryRecords = Some(OrEmpty(res.data.dlt_dlvrDtsLst)),
            !.documentRecords = Some(OrEmpty(res.data.dlt_ofdocDtsLst)),
            !.mergerRecords = Some(OrEmpty(res.data.dlt_mrgDpcnSbxLst)),
            !.priorCaseInfo = res.data.dma_trnscsBfCsInfo]

Merge_ErrorUntouched(entry, res) ==
    IF res.nodata
    THEN [entry EXCEPT !.deliveryRecords = Some(<<>>), !.documentRecords = Some(<<>>)]
    ELSE IF res.error THEN entry
    ELSE LET mergerList == OrEmpty(res.data.dlt_mrgDpcnSbxLst)
             priorCase == res.data.dma_trnscsBfCsInfo
         IN [entry EXCEPT
               !.deliveryRecords = Some(OrEmpty(res.data.dlt_dlvrDtsLst)),
               !.documentRecords = Some(OrEmpty(res.data.dlt_ofdocDtsLst)),
               !.mergerRecords = IF Len(mergerList) > 0 THEN Some(mergerList) ELSE @,
               !.priorCaseInfo = IF priorCase # None /\ Cardinality(The(priorCase)) > 0
                                 THEN priorCase ELSE @]

Merge_NoDataUntouched(entry, res) ==
    IF res.nodata THEN entry
    ELSE IF res.error
    THEN [entry EXCEPT !.deliveryRecords = Some(<<>>), !.documentRecords = Some(<<>>)]
    ELSE LET mergerList == OrEmpty(res.data.dlt_mrgDpcnSbxLst)
             priorCase == res.data.dma_trnscsBfCsInfo
         IN [entry EXCEPT
               !.deliveryRecords = Some(OrEmpty(res.data.dlt_dlvrDtsLst)),
               !.documentRecords = Some(OrEmpty(res.data.dlt_ofdocDtsLst)),
               !.mergerRecords = IF Len(mergerList) > 0 THEN Some(mergerList) ELSE @,
               !.priorCaseInfo = IF priorCase # None /\ Cardinality(The(priorCase)) > 0
                                 THEN priorCase ELSE @]

\* Lines 252-275: the entry after a result that is not a block.
Merge(entry, res) ==
    IF res.nodata \/ res.error
    THEN [entry EXCEPT !.deliveryRecords = Some(<<>>), !.documentRecords = Some(<<>>)]
    ELSE LET mergerList == OrEmpty(res.data.dlt_mrgDpcnSbxLst)
             priorCase == res.data.dma_trnscsBfCsInfo
         IN [entry EXCEPT
               !.deliveryRecords = Some(OrEmpty(res.data.dlt_dlvrDtsLst)),
               !.documentRecords = Some(OrEmpty(res.data.dlt_ofdocDtsLst)),
               !.mergerRecords = IF Len(mergerList) > 0 THEN Some(mergerList) ELSE @,
               !.priorCaseInfo = IF priorCase # None /\ Cardinality(The(priorCase)) > 0
                                 THEN priorCase ELSE @]

MergeStats(st, res) ==
    IF res.nodata \/ res.error THEN st
    ELSE [deliveryItems |-> st.deliveryItems + Len(OrEmpty(res.data.dlt_dlvrDtsLst)),
          documentItems |-> st.documentItems + Len(OrEmpty(res.data.dlt_ofdocDtsLst))]

\* A loop that never gives up.
AbortThreshold_Never(blocks) == FALSE

\* Line 234: the block count has reached the abort threshold.
AbortThreshold(blocks) == blocks >= MAX_CONSECUTIVE_BLOCKS

\* Line 281: the item at index idx is followed by a periodic flush.
FlushDue(idx, test) == idx % SAVE_INTERVAL = 0 \/ test

\* ----------------------------------------------------------------- Init
NothingLoaded == [details |-> <<>>, progress |-> None]

NoStats == [deliveryItems |-> 0, documentItems |-> 0]

InitDetails(n) == [p \in 1..n |-> FreshEntry(n, p)]

ArrayFile(n) == [isArray |-> TRUE, keys |-> <<>>, vals |-> InitDetails(n)]

ObjectFile(n) ==
    [isArray |-> FALSE, keys |-> [p \in 1..n |-> Key(InitDetails(n)[p])],
     vals |-> InitDetails(n)]

\* The store long enough for the batch rest to happen.
BatchItems == BATCH_REST_INTERVAL + 1

\* A record store never processed before, as an array or as a mapping from
\* case key to entry:
\*   - one entry: every behaviour of the environment, every payload;
\*   - MaxItems entries: every behaviour of the environment, one payload;
\*   - BatchItems entries: the nominal behaviour only (see Large).
Init ==
    /\ detailsFile \in {ArrayFile(1), ObjectFile(1), ArrayFile(MaxItems),
                         ArrayFile(BatchItems), ObjectFile(BatchItems)}
    /\ progressFile = None
    /\ RESUME = FALSE /\ TEST_MODE = FALSE /\ rawIsArray = TRUE
    /\ details = <<>>
    /\ progress = EmptyProgress
    /\ targets = <<>>
    /\ i = 0
    /\ success = 0 /\ errors = 0 /\ consecutiveBlocks = 0
    /\ stats = NoStats
    /\ pc = "idle" /\ exitStatus = 0 /\ exitPath = "none"
    /\ fetchLog = <<>>
    /\ since = <<>>
    /\ atLaunch = NothingLoaded
    /\ faults = <<>>

\* ---------------------------------------------------------- environment
\* The store is the long one: the environment is then kept close to nominal
\* (every fetch that returns answers NominalResponse, the process is not
\* killed, no test sampling; the only exception is one rejection of
\* page.evaluate in a run over the untouched store), and the run is not cut
\* short by MaxFetches.
Large == Len(detailsFile.vals) > MaxItems

Untouched == atLaunch.progress = None /\ \A p \in 1..Len(atLaunch.details) :
                                            atLaunch.details[p].deliveryRecords = None

FaultBudget == IF ~Large THEN MaxFaults ELSE IF Untouched THEN Min(MaxFaults, 1) ELSE 0

NominalResponse ==
    [kind |-> "response", parseable |-> TRUE, blockMessage |-> FALSE,
     ipcheckFalse |-> FALSE, status |-> 200,
     data |-> CHOOSE p \in Payloads : p.dma_trnscsBfCsInfo = None]

\* page.evaluate rejects.
ThrowingCall == CHOOSE r \in Responses : r.kind = "evalthrow"

\* The bodies explored on the current store.
PayloadsHere ==
    IF Len(detailsFile.vals) = 1 THEN Payloads ELSE {NominalResponse.data}

\* The process ends: its memory is gone, the files stay.
Exit(status, path) ==
    /\ pc' = "exited" /\ exitStatus' = status /\ exitPath' = path
    /\ rawIsArray' = TRUE
    /\ details' = <<>>
    /\ progress' = EmptyProgress
    /\ targets' = <<>>
    /\ i' = 0
    /\ success' = 0 /\ errors' = 0 /\ consecutiveBlocks' = 0
    /\ stats' = NoStats
    /\ fetchLog' = <<>>
    /\ since' = <<>>
    /\ atLaunch' = NothingLoaded
    /\ faults' = <<>>

\* The environment raises an exception of the given kind.
Fault(kind) ==
    /\ Len(faults) < FaultBudget
    /\ Large => kind = "fetch"
    /\ faults' = Append(faults, kind)

\* -------------------------------------------------------------- actions
\* Nothing has been processed yet: no checkpoint and no fetched entry.
StoreUntouched ==
    /\ progressFile = None
    /\ \A p \in 1..Len(detailsFile.vals) : detailsFile.vals[p].deliveryRecords = None

\* Lines 109-171: launch; load both files and select the targets; with
\* no target the process returns at line 149 and ends with status 0.
\* JSON.parse of a torn checkpoint throws (line 91): main() rejects.
StartRun(resume, test) ==
    /\ pc \in {"idle", "exited"}
    /\ Large => (~test \/ StoreUntouched)
    /\ RESUME' = resume /\ TEST_MODE' = test
    /\ LET ds == ObjectValues(detailsFile)
           pr == loadProgress(resume, progressFile)
           ts == SelectTargets(ds, Range(pr.completed), test)
       IN IF resume /\ Torn(progressFile)
          THEN Exit(0, "rejected")
          ELSE IF Len(ts) = 0
          THEN Exit(0, "nothing")
          ELSE /\ rawIsArray' = detailsFile.isArray
               /\ details' = ds
               /\ targets' = ts
               /\ progress' = [pr EXCEPT !.total = Len(ds)]
               /\ pc' = "session" /\ exitStatus' = 0 /\ exitPath' = "none"
               /\ atLaunch' = [details |-> detailsFile.vals, progress |-> progressFile]
               /\ i' = 0 /\ success' = 0 /\ errors' = 0 /\ consecutiveBlocks' = 0
               /\ stats' = NoStats
               /\ fetchLog' = <<>> /\ since' = <<>> /\ faults' = <<>>
    /\ UNCHANGED durable

\* The promise of main() rejects: main().catch(console.error) at line 307.
Reject(kind) ==
    /\ Fault(kind)
    /\ pc' = "rejected"

\* Lines 173-199: browser launch and session establishment.
Session(outcome) ==
    /\ pc = "session"
    /\ CASE outcome = "ready" ->
              /\ pc' = "loop"
              /\ UNCHANGED <<exitStatus, exitPath, faults, rawIsArray, details,
                             progress, targets, i, counters, fetchLog, since, atLaunch>>
         [] outcome = "notready" -> Exit(1, "nosession")
         [] outcome = "throws" ->
              /\ Reject("session")
              /\ UNCHANGED <<exitStatus, exitPath, rawIsArray, details, progress,
                             targets, i, counters, fetchLog, since, atLaunch>>
    /\ UNCHANGED <<durable, RESUME, TEST_MODE>>

\* Lines 217-228: look the entry up and issue the fetch for targets[i].
Dispatch(pauses) ==
    LET t == details[targets[i + 1]]
        key == Key(t)
    IN IF detailMapGet(details, key) = 0
       THEN /\ errors' = errors + 1
            /\ progress' = [progress EXCEPT !.completed = Append(@, key)]
            /\ i' = i + 1
            /\ pc' = "loop"
            /\ since' = pauses
            /\ UNCHANGED fetchLog
       ELSE /\ Large \/ Len(fetchLog) < MaxFetches
            /\ fetchLog' = Append(fetchLog,
                 [key |-> key, out |-> "inflight", data |-> None,
                  blocks |-> consecutiveBlocks, pre |-> pauses, retried |-> FALSE,
                  raw |-> None,
                  errorsAt |-> errors])
            /\ pc' = "fetching"
            /\ since' = pauses
            /\ UNCHANGED <<errors, progress, i>>

\* Lines 207-215: loop condition and batch rest.
LoopTop ==
    /\ pc = "loop"
    /\ IF i >= Len(targets)
       THEN pc' = "finalD" /\ UNCHANGED <<errors, progress, i, fetchLog, since>>
       ELSE IF i > 0 /\ i % BATCH_REST_INTERVAL = 0
       THEN pc' = "rest" /\ UNCHANGED <<errors, progress, i, fetchLog, since>>
       ELSE Dispatch(since)
    /\ UNCHANGED <<durable, flags, details, targets, success, consecutiveBlocks,
                   stats, exitStatus, exitPath, atLaunch, faults>>

\* Line 214: await page.waitForTimeout(BATCH_REST_DURATION), outside the try.
\* waitForTimeout rejects only when the page has been closed under it.
BatchRest(ok) ==
    /\ pc = "rest"
    /\ IF ok
       THEN Dispatch(Append(since, "rest")) /\ UNCHANGED faults
       ELSE Reject("crash") /\ UNCHANGED <<errors, progress, i, fetchLog, since>>
    /\ UNCHANGED <<durable, flags, details, targets, success, consecutiveBlocks,
                   stats, exitStatus, exitPath, atLaunch>>

\* Lines 285-288: catch (e) { errors++ }, then on to the delay of line 290.
Caught(kind) ==
    /\ Fault(kind)
    /\ errors' = errors + 1
    /\ pc' = "delay"

SetOut(log, tag, data, blocks) ==
    [log EXCEPT ![Len(log)].out = tag, ![Len(log)].data = data,
                ![Len(log)].blocks = blocks]

\* The log once the item in flight is settled: its Blocked attempts are
\* folded into the entry of the settling fetch.
Settle(log, tag, data) ==
    LET key == log[Len(log)].key
        kept == SelectSeq(SetOut(log, tag, data, 0),
                          LAMBDA e : ~(e.key = key /\ e.out = "Blocked"))
    IN [kept EXCEPT ![Len(kept)].retried = Len(kept) < Len(log)]

\* The log with what the fetch in flight met, when the run is observed
\* (only the latest response is kept).
Observe(log, r, observed) ==
    IF observed
    THEN [n \in 1..Len(log) |->
            [log[n] EXCEPT !.raw = IF n = Len(log) THEN Some(r) ELSE None]]
    ELSE log

\* Lines 228-284: the fetch returns (or throws) and its result is applied.
FetchApplied(r, observed) ==
    /\ pc = "fetching"
    /\ Large => r \in {NominalResponse, ThrowingCall}
    /\ r.kind = "response" => r.data \in PayloadsHere
    /\ IF r.kind = "evalthrow"
       THEN /\ Caught("fetch")
            /\ fetchLog' = SetOut(Observe(fetchLog, r, observed), "Throw", None,
                                  consecutiveBlocks)
            /\ UNCHANGED <<details, progress, success, consecutiveBlocks, stats>>
       ELSE LET res == scrapeDocuments(r)
                key == Key(details[targets[i + 1]])
                e == detailMapGet(details, key)
            IN /\ UNCHANGED faults
               /\ IF res.blocked
                  THEN /\ fetchLog' = SetOut(Observe(fetchLog, r, observed), "Blocked",
                                             None, consecutiveBlocks + 1)
                       /\ consecutiveBlocks' = consecutiveBlocks + 1
                       /\ pc' = IF AbortThreshold(consecutiveBlocks + 1)
                                THEN "abortD" ELSE "cooldown"
                       /\ UNCHANGED <<details, progress, success, errors, stats>>
                  ELSE /\ fetchLog' = Settle(Observe(fetchLog, r, observed), OutcomeTag(res),
                                             IF OutcomeTag(res) = "Success"
                                             THEN Some(res.data) ELSE None)
                       /\ consecutiveBlocks' = 0
                       /\ details' = [details EXCEPT ![e] = Merge(@, res)]
                       /\ stats' = MergeStats(stats, res)
                       /\ errors' = IF res.nodata \/ ~res.error THEN errors ELSE errors + 1
                       /\ success' = success + 1
                       /\ progress' = [progress EXCEPT !.completed = Append(@, key)]
                       /\ pc' = IF FlushDue(i, TEST_MODE) THEN "flushP" ELSE "delay"
    /\ since' = <<>>
    /\ UNCHANGED <<durable, flags, targets, i, exitStatus, exitPath, atLaunch>>

FetchReturns(r) == FetchApplied(r, FALSE)

\* The same step, the response kept in the fetch log.
FetchObserved(r) == FetchApplied(r, TRUE)

\* Line 243: await page.waitForTimeout(IP_BLOCK_WAIT).  It rejects only when
\* the page has been closed; the catch counts an error and the wait of
\* line 290 then rejects as well, outside the try.
Cooldown(ok) ==
    /\ pc = "cooldown"
    /\ IF ok
       THEN /\ pc' = "refresh"
            /\ since' = Append(since, "cooldown")
            /\ UNCHANGED <<errors, faults>>
       ELSE /\ Reject("crash")
            /\ errors' = errors + 1
            /\ UNCHANGED since
    /\ UNCHANGED <<durable, flags, details, progress, targets, i, success,
                   consecutiveBlocks, stats, exitStatus, exitPath, fetchLog, atLaunch>>

\* Lines 244-247: page.goto(SEARCH_PAGE) (may time out), settle, i--,
\* continue (i++).
Refresh(ok) ==
    /\ pc = "refresh"
    /\ IF ok
       THEN /\ pc' = "loop"
            /\ since' = Append(since, "refresh")
            /\ UNCHANGED <<errors, faults>>
       ELSE Caught("refresh") /\ UNCHANGED since
    /\ UNCHANGED <<durable, flags, details, progress, targets, i, success,
                   consecutiveBlocks, stats, exitStatus, exitPath, fetchLog, atLaunch>>

\* Line 282: saveProgress(progress) of the periodic flush.
FlushProgress(ok) ==
    /\ pc = "flushP"
    /\ IF ok
       THEN /\ progressFile' = Some(progress)
            /\ pc' = "flushD"
            /\ UNCHANGED <<errors, faults>>
       ELSE Caught("write") /\ UNCHANGED progressFile
    /\ UNCHANGED <<detailsFile, flags, details, progress, targets, i, success,
                   consecutiveBlocks, stats, exitStatus, exitPath, fetchLog,
                   since, atLaunch>>

\* Line 283: saveDetails() of the periodic flush.
FlushDetails(ok) ==
    /\ pc = "flushD"
    /\ IF ok
       THEN /\ detailsFile' = SavedDetails(rawIsArray, details)
            /\ pc' = "delay"
            /\ UNCHANGED <<errors, faults>>
       ELSE Caught("write") /\ UNCHANGED detailsFile
    /\ UNCHANGED <<progressFile, flags, details, progress, targets, i, success,
                   consecutiveBlocks, stats, exitStatus, exitPath, fetchLog,
                   since, atLaunch>>

\* Line 236: saveDetails() of the abort path (inside the try).
AbortDetails(ok) ==
    /\ pc = "abortD"
    /\ IF ok
       THEN /\ detailsFile' = SavedDetails(rawIsArray, details)
            /\ pc' = "abortP"
            /\ UNCHANGED <<errors, faults>>
       ELSE Caught("write") /\ UNCHANGED detailsFile
    /\ UNCHANGED <<progressFile, flags, details, progress, targets, i, success,
                   consecutiveBlocks, stats, exitStatus, exitPath, fetchLog,
                   since, atLaunch>>

\* Lines 237-239: saveProgress(progress); browser.close(); process.exit(1).
AbortProgress(ok) ==
    /\ pc = "abortP"
    /\ IF ok
       THEN /\ progressFile' = Some(progress)
            /\ Exit(1, "abort")
       ELSE /\ Caught("write")
            /\ UNCHANGED <<progressFile, exitStatus, exitPath, rawIsArray, details,
                           progress, targets, i, success, consecutiveBlocks, stats,
                           fetchLog, since, atLaunch>>
    /\ UNCHANGED <<detailsFile, RESUME, TEST_MODE>>

\* The loop without the wait of line 290.
Delay_NoWait(ok) ==
    /\ pc = "delay"
    /\ pc' = "loop" /\ i' = i + 1
    /\ UNCHANGED <<since, faults>>
    /\ UNCHANGED <<durable, flags, details, progress, targets, counters,
                   exitStatus, exitPath, fetchLog, atLaunch>>

\* Line 290: await page.waitForTimeout(DELAY_BETWEEN), outside the try; i++.
Delay(ok) ==
    /\ pc = "delay"
    /\ IF ok
       THEN /\ pc' = "loop" /\ i' = i + 1
            /\ since' = Append(since, "delay")
            /\ UNCHANGED faults
       ELSE Reject("crash") /\ UNCHANGED <<i, since>>
    /\ UNCHANGED <<durable, flags, details, progress, targets, counters,
                   exitStatus, exitPath, fetchLog, atLaunch>>

\* Line 295: saveDetails() of the final save.
FinalDetails(ok) ==
    /\ pc = "finalD"
    /\ IF ok
       THEN /\ detailsFile' = SavedDetails(rawIsArray, details)
            /\ pc' = "finalP"
            /\ UNCHANGED faults
       ELSE Reject("write") /\ UNCHANGED detailsFile
    /\ UNCHANGED <<progressFile, flags, details, progress, targets, i, counters,
                   exitStatus, exitPath, fetchLog, since, atLaunch>>

\* Lines 296-305: saveProgress(progress), summary, browser.close(); the
\* process ends with status 0.
FinalProgress(ok) ==
    /\ pc = "finalP"
    /\ IF ok
       THEN /\ progressFile' = Some(progress)
            /\ Exit(0, "done")
       ELSE /\ Reject("write")
            /\ UNCHANGED <<progressFile, exitStatus, exitPath, rawIsArray, details,
                           progress, targets, i, counters, fetchLog, since, atLaunch>>
    /\ UNCHANGED <<detailsFile, RESUME, TEST_MODE>>

\* Line 307: the rejection is logged by console.error, nothing is saved,
\* and the process ends with status 0 (the rejection was handled).
Rejected ==
    /\ pc = "rejected"
    /\ Exit(0, "rejected")
    /\ UNCHANGED <<durable, RESUME, TEST_MODE>>

\* The process is stopped from outside (SIGINT, SIGTERM, SIGKILL): no signal
\* handler is installed, so it ends where it is.
Kill ==
    /\ pc \notin {"idle", "exited"}
    /\ ~Large
    /\ Exit(137, "killed")
    /\ UNCHANGED <<durable, RESUME, TEST_MODE>>

\* Lines 101-106: the process dies inside fs.writeFileSync of saveProgress.
KillMidWrite ==
    /\ pc \in {"flushP", "abortP", "finalP"}
    /\ progressFile' = Some(TornProgress)
    /\ Exit(137, "killed")
    /\ UNCHANGED <<detailsFile, RESUME, TEST_MODE>>

Next ==
    \/ \E resume \in BOOLEAN, test \in BOOLEAN : StartRun(resume, test)
    \/ \E outcome \in {"ready", "notready", "throws"} : Session(outcome)
    \/ LoopTop
    \/ \E ok \in BOOLEAN : BatchRest(ok)
    \/ \E r \in Responses : FetchReturns(r)
    \/ \E ok \in BOOLEAN : Cooldown(ok)
    \/ \E ok \in BOOLEAN : Refresh(ok)
    \/ \E ok \in BOOLEAN : FlushProgress(ok)
    \/ \E ok \in BOOLEAN : FlushDetails(ok)
    \/ \E ok \in BOOLEAN : AbortDetails(ok)
    \/ \E ok \in BOOLEAN : AbortProgress(ok)
    \/ \E ok \in BOOLEAN : Delay(ok)
    \/ \E ok \in BOOLEAN : FinalDetails(ok)
    \/ \E ok \in BOOLEAN : FinalProgress(ok)
    \/ Rejected
    \/ Kill

Spec == Init /\ [][Next]_vars

\* Runs over the one-entry store, every response kept in the fetch log.
InitObserved == Init /\ Len(detailsFile.vals) = 1

NextObserved ==
    \/ \E resume \in BOOLEAN, test \in BOOLEAN : StartRun(resume, test)
    \/ \E outcome \in {"ready", "notready", "throws"} : Session(outcome)
    \/ LoopTop
    \/ \E r \in Responses : FetchObserved(r)
    \/ \E ok \in BOOLEAN : Cooldown(ok)
    \/ \E ok \in BOOLEAN : Refresh(ok)
    \/ \E ok \in BOOLEAN : FlushProgress(ok)
    \/ \E ok \in BOOLEAN : FlushDetails(ok)
    \/ \E ok \in BOOLEAN : AbortDetails(ok)
    \/ \E ok \in BOOLEAN : AbortProgress(ok)
    \/ \E ok \in BOOLEAN : Delay(ok)
    \/ \E ok \in BOOLEAN : FinalDetails(ok)
    \/ \E ok \in BOOLEAN : FinalProgress(ok)
    \/ Rejected
    \/ Kill

SpecObserved == InitObserved /\ [][NextObserved]_vars

\* Runs over the one-entry store in which the process can also die in the
\* middle of a checkpoint write.
InitTorn == Init /\ Len(detailsFile.vals) = 1

NextTorn ==
    \/ \E resume \in BOOLEAN, test \in BOOLEAN : StartRun(resume, test)
    \/ \E outcome \in {"ready", "notready", "throws"} : Session(outcome)
    \/ LoopTop
    \/ \E r \in Responses : FetchReturns(r)
    \/ \E ok \in BOOLEAN : Cooldown(ok)
    \/ \E ok \in BOOLEAN : Refresh(ok)
    \/ \E ok \in BOOLEAN : FlushProgress(ok)
    \/ \E ok \in BOOLEAN : FlushDetails(ok)
    \/ \E ok \in BOOLEAN : AbortDetails(ok)
    \/ \E ok \in BOOLEAN : AbortProgress(ok)
    \/ \E ok \in BOOLEAN : Delay(ok)
    \/ \E ok \in BOOLEAN : FinalDetails(ok)
    \/ \E ok \in BOOLEAN : FinalProgress(ok)
    \/ Rejected
    \/ Kill
    \/ KillMidWrite

SpecTorn == InitTorn /\ [][NextTorn]_vars

\* The runs in which every fetch, pause, refresh and save returns: no call
\* throws and the process is not stopped from outside.
NextLive ==
    \/ \E resume \in BOOLEAN, test \in BOOLEAN : StartRun(resume, test)
    \/ \E outcome \in {"ready", "notready"} : Session(outcome)
    \/ LoopTop
    \/ BatchRest(TRUE)
    \/ \E r \in {x \in Responses : x.kind # "evalthrow"} : FetchReturns(r)
    \/ Cooldown(TRUE)
    \/ Refresh(TRUE)
    \/ FlushProgress(TRUE)
    \/ FlushDetails(TRUE)
    \/ AbortDetails(TRUE)
    \/ AbortProgress(TRUE)
    \/ Delay(TRUE)
    \/ FinalDetails(TRUE)
    \/ FinalProgress(TRUE)

\* A step of the running process: the continuation of the call it awaits.
\* When the awaited call returns, Node runs the continuation, so the process
\* does not stay where it is.
RunStep == pc \notin {"idle", "exited"} /\ NextLive

SpecLive == Init /\ [][NextLive]_vars /\ WF_vars(RunStep)

\* ------------------------------------------------- vocabulary of the claims
\* The entry carries the done marker.
DoneMarker(d) == d.deliveryRecords # None /\ d.documentRecords # None

\* The keys of a checkpoint file (none when the file does not exist).
FileKeys(file) == IF file = None THEN {} ELSE Range(The(file).completed)

IsPrefix(a, b) == Len(a) <= Len(b) /\ SubSeq(b, 1, Len(a)) = a

\* The keys fetched in the current run, in order, a retry of the same item
\* counted once.
FetchedKeys ==
    LET firsts == SelectSeq(Positions(fetchLog),
                            LAMBDA n : n = 1 \/ fetchLog[n].key # fetchLog[n - 1].key)
    IN [m \in 1..Len(firsts) |-> fetchLog[firsts[m]].key]

\* The keys of the entries the current run found neither in the checkpoint
\* file nor marked done, in record-store order.
PendingAtLaunch ==
    LET open == SelectSeq(atLaunch.details,
                          LAMBDA d : Key(d) \notin FileKeys(atLaunch.progress)
                                     /\ ~DoneMarker(d))
    IN [m \in 1..Len(open) |-> Key(open[m])]

LoopCompleted == pc \in {"finalD", "finalP"}

Settled(n) == fetchLog[n].out \in {"Success", "NoData", "Error"}

\* --------------------------------------------------------------------- C1
\* C1: in a resumed run without test sampling, the items fetched are, in
\* record-store order, the entries that were neither in the checkpoint file
\* nor marked done at launch (all of them once the loop has completed), and
\* no key of the checkpoint file is ever fetched.
C1_ResumeCorrectness ==
    (RESUME /\ ~TEST_MODE /\ pc # "idle") =>
        /\ IsPrefix(FetchedKeys, PendingAtLaunch)
        /\ LoopCompleted => FetchedKeys = PendingAtLaunch
        /\ \A n \in 1..Len(fetchLog) : fetchLog[n].key \notin FileKeys(atLaunch.progress)

\* A resumed run that skipped a checkpointed key and fetched the rest.
C1_Witness ==
    /\ RESUME /\ ~TEST_MODE /\ pc = "finalD"
    /\ FileKeys(atLaunch.progress) # {}
    /\ Len(fetchLog) > 0
    /\ \E p \in 1..Len(atLaunch.details) :
         /\ Key(atLaunch.details[p]) \in FileKeys(atLaunch.progress)
         /\ ~DoneMarker(atLaunch.details[p])

\* --------------------------------------------------------------------- C2
\* C2: an entry that carries the done marker when a run starts is never
\* fetched by that run and stays as it was, in memory and in the file.
C2_DoneNeverRefetched ==
    pc # "idle" =>
        \A p \in 1..Len(atLaunch.details) :
            DoneMarker(atLaunch.details[p]) =>
                /\ \A n \in 1..Len(fetchLog) : fetchLog[n].key # Key(atLaunch.details[p])
                /\ details[p] = atLaunch.details[p]
                /\ detailsFile.vals[p] = atLaunch.details[p]

\* A run that found a done entry, fetched another item and saved the store.
C2_Witness ==
    /\ pc = "finalP"
    /\ \E p \in 1..Len(atLaunch.details) : DoneMarker(atLaunch.details[p])
    /\ \E n \in 1..Len(fetchLog) : fetchLog[n].out = "Success"
    /\ detailsFile.vals # atLaunch.details

\* --------------------------------------------------------------------- C3
\* C3: after the process was killed, every key of the checkpoint file has
\* its done marker in the record-store file, so a resumed run skips no item
\* whose data was not persisted.
C3_CrashSafe ==
    (pc = "exited" /\ exitPath = "killed") =>
        \A k \in FileKeys(progressFile) :
            \E p \in 1..Len(detailsFile.vals) :
                Key(detailsFile.vals[p]) = k /\ DoneMarker(detailsFile.vals[p])

\* --------------------------------------------------------------------- C4
\* The earlier fetches of the item whose fetch is in flight.
EarlierFetches(log) == {m \in 1..(Len(log) - 1) : log[m].key = log[Len(log)].key}

\* The position in the store of the entry with the given key.
PositionOf(ds, key) == CHOOSE p \in 1..Len(ds) : Key(ds[p]) = key

C4_Recovered ==
    LET n == Len(fetchLog)
        X == fetchLog[n].key
        K == EarlierFetches(fetchLog)
        last == fetchLog'[Len(fetchLog')]
        payload == The(last.data)
        entry == details'[PositionOf(details', X)]
    IN (/\ pc = "fetching"
        /\ Len(fetchLog') > 0
        /\ last.key = X
        /\ last.out = "Success"
        /\ K # {}
        /\ \A m \in K : fetchLog[m].out = "Blocked") =>
           /\ Cardinality(K) < MAX_CONSECUTIVE_BLOCKS
           /\ K = (n - Cardinality(K))..(n - 1)
           /\ consecutiveBlocks' = 0
           /\ last.retried
           /\ entry.deliveryRecords = Some(OrEmpty(payload.dlt_dlvrDtsLst))
           /\ entry.documentRecords = Some(OrEmpty(payload.dlt_ofdocDtsLst))
           /\ X \in Range(progress'.completed)
           /\ errors' = fetchLog[n - Cardinality(K)].errorsAt
           /\ pc' \in {"flushP", "delay"}

OnlyBlocked ==
    /\ Len(fetchLog) > 0
    /\ \A n \in 1..Len(fetchLog) : fetchLog[n].out \in {"Blocked", "inflight"}

BlockedCount == Cardinality({n \in 1..Len(fetchLog) : fetchLog[n].out = "Blocked"})

Exits(path) == pc # "exited" /\ pc' = "exited" /\ exitPath' = path

C5_Aborts ==
    /\ OnlyBlocked =>
          /\ Len(fetchLog) <= MAX_CONSECUTIVE_BLOCKS
          /\ BlockedCount = MAX_CONSECUTIVE_BLOCKS <=> pc \in {"abortD", "abortP"}
          /\ BlockedCount = MAX_CONSECUTIVE_BLOCKS =>
                (Exits("abort") /\ exitStatus' = 1) \/ Exits("killed") \/ pc' \in {"abortD", "abortP"}
    /\ Exits("abort") =>
          /\ exitStatus' = 1
          /\ detailsFile'.vals = details
          /\ progressFile' = Some(progress)
          /\ \A n \in 1..Len(fetchLog) : Settled(n) =>
                /\ fetchLog[n].key \in FileKeys(progressFile')
                /\ DoneMarker(detailsFile'.vals[PositionOf(details, fetchLog[n].key)])

\* C5: in a run in which every fetch is answered Blocked, the run is on the
\* abort path exactly from the MAX_CONSECUTIVE_BLOCKS-th answer on, issues no
\* further fetch and leaves the abort path only by exiting with status 1;
\* whenever a run exits by the abort path, both files hold what the run had
\* in memory, every item settled earlier included.
C5_AbortThreshold == [][C5_Aborts]_vars

\* --------------------------------------------------------------------- C6
\* C6: a fetch that follows a Blocked answer below the abort threshold is a
\* fetch of the same item, issued after the cooldown and then the session
\* refresh have completed.
C6_RetryOrdering ==
    \A n \in 2..Len(fetchLog) :
        (fetchLog[n - 1].out = "Blocked" /\ fetchLog[n - 1].blocks < MAX_CONSECUTIVE_BLOCKS) =>
            /\ fetchLog[n].key = fetchLog[n - 1].key
            /\ fetchLog[n].pre = <<"cooldown", "refresh">>

\* --------------------------------------------------------------------- C7
\* C7: a run that settled at least one item and ends by loop completion, by
\* the abort path or by an unhandled exception leaves its record store and
\* checkpoint in the files, and exits with status 0 exactly on loop completion.
C7_FlushOnEveryExit ==
    [][(success > 0 /\ (Exits("done") \/ Exits("abort") \/ Exits("rejected"))) =>
          /\ detailsFile'.vals = details
          /\ progressFile' = Some(progress)
          /\ exitPath' = "done" => exitStatus' = 0
          /\ exitPath' # "done" => exitStatus' # 0]_vars

\* --------------------------------------------------------------------- C8
\* C8: when the process is stopped from outside, every item the run has
\* settled is in both files, as it is in memory.
C8_StopFlushes ==
    [][Exits("killed") =>
          \A n \in 1..Len(fetchLog) : Settled(n) =>
              LET p == PositionOf(details, fetchLog[n].key)
              IN /\ detailsFile'.vals[p] = details[p]
                 /\ fetchLog[n].key \in FileKeys(progressFile')]_vars

\* --------------------------------------------------------------------- C9
NoDuplicates(seq) == \A a, b \in 1..Len(seq) : seq[a] = seq[b] => a = b

CheckpointSound ==
    /\ NoDuplicates(progress.completed)
    /\ progressFile # None => NoDuplicates(The(progressFile).completed)
    /\ \A n \in 1..Len(fetchLog) : Settled(n) => fetchLog[n].key \in Range(progress.completed)

CheckpointGrows ==
    /\ (pc \notin {"idle", "exited"} /\ pc' # "exited") =>
          IsPrefix(progress.completed, progress'.completed)
    /\ (pc \in {"idle", "exited"} /\ pc' # "exited" /\ RESUME') =>
          FileKeys(progressFile) \subseteq Range(progress'.completed)
    /\ RESUME' => FileKeys(progressFile) \subseteq FileKeys(progressFile')

\* C9: the completed list never holds a key twice (in memory or in the
\* file) and holds every key the run has settled; within a run it only grows
\* by appending; a resumed run starts from the keys of the file and every
\* write of a resumed run keeps all the keys the file held.
C9_CheckpointInvariant == [][CheckpointSound' /\ CheckpointGrows]_vars

\* A resumed run loaded a non-empty checkpoint, settled one more item and
\* wrote the longer checkpoint.
C9_Witness ==
    /\ RESUME /\ pc = "flushD"
    /\ FileKeys(atLaunch.progress) # {}
    /\ FileKeys(atLaunch.progress) \subseteq FileKeys(progressFile)
    /\ FileKeys(atLaunch.progress) # FileKeys(progressFile)

\* -------------------------------------------------------------------- C10
\* C10: after a run without test sampling has ended by loop completion, the
\* next run with the same flags selects no target (it issues no fetch) and
\* leaves both files as they are.
C10_IdempotentCompletion ==
    [][(/\ pc = "exited" /\ exitPath = "done" /\ ~TEST_MODE
        /\ RESUME' = RESUME /\ TEST_MODE' = TEST_MODE) =>
          /\ targets' = <<>>
          /\ pc' = "exited"
          /\ detailsFile' = detailsFile /\ progressFile' = progressFile]_vars

\* -------------------------------------------------------------------- C11
\* The outcome the five classifier rules give, taken in order.
RuleOutcome(r) ==
    IF ~r.parseable THEN "Error"
    ELSE IF r.blockMessage \/ r.ipcheckFalse THEN "Blocked"
    ELSE IF r.status = 550 THEN "NoData"
    ELSE IF r.status \notin 200..299 THEN "Error"
    ELSE "Success"

\* The fetches whose HTTP response is in the log.
Observed == {n \in 1..Len(fetchLog) :
               fetchLog[n].raw # None /\ The(fetchLog[n].raw).kind = "response"}

\* C11: whatever the combination of (parseable, block phrase, block flag,
\* status), the outcome the run acts on is the one of the five rules taken
\* in order, and it is exactly one of the four variants.
C11_ClassifierPriority ==
    \A n \in Observed :
        /\ fetchLog[n].out = RuleOutcome(The(fetchLog[n].raw))
        /\ fetchLog[n].out \in {"Success", "NoData", "Blocked", "Error"}

\* A parseable non-2xx response with a block message was taken as Blocked.
C11_Witness ==
    \E n \in Observed :
        /\ The(fetchLog[n].raw).parseable
        /\ The(fetchLog[n].raw).status = 500
        /\ The(fetchLog[n].raw).blockMessage
        /\ fetchLog[n].out = "Blocked"
        /\ consecutiveBlocks > 0

\* -------------------------------------------------------------------- C12
InRun == pc \notin {"idle", "exited"}

\* The keys the current run has issued a fetch for.
Attempted == {fetchLog[n].key : n \in 1..Len(fetchLog)}

\* The keys of the checkpoint the current run started from.
LoadedKeys == IF RESUME THEN FileKeys(atLaunch.progress) ELSE {}

\* The entries that were pending when the run started and that the run has
\* not attempted.
NeverAttempted ==
    {p \in 1..Len(details) :
        /\ ~DoneMarker(atLaunch.details[p])
        /\ Key(details[p]) \notin LoadedKeys
        /\ Key(details[p]) \notin Attempted}

\* C12: an item whose fetch returned NoData has both lists present and
\* empty and its key in the checkpoint; a pending item the run has not
\* attempted still has both fields absent and its key not in the checkpoint.
C12_NoDataVsNeverFetched ==
    InRun =>
        /\ \A n \in 1..Len(fetchLog) : fetchLog[n].out = "NoData" =>
              LET e == details[PositionOf(details, fetchLog[n].key)]
              IN /\ e.deliveryRecords = Some(<<>>)
                 /\ e.documentRecords = Some(<<>>)
                 /\ fetchLog[n].key \in Range(progress.completed)
        /\ \A p \in NeverAttempted :
              /\ details[p].deliveryRecords = None
              /\ details[p].documentRecords = None
              /\ Key(details[p]) \notin Range(progress.completed)

\* One item was answered NoData while another pending item is still to come.
C12_Witness ==
    /\ pc = "delay"
    /\ \E n \in 1..Len(fetchLog) : fetchLog[n].out = "NoData"
    /\ NeverAttempted # {}

\* -------------------------------------------------------------------- C13
\* The step applies the result of the fetch in flight with the given outcome.
Applies(tag) ==
    /\ pc = "fetching"
    /\ Len(fetchLog') > 0
    /\ fetchLog'[Len(fetchLog')].out = tag

UnrelatedFields == {"cortOfcCd", "csNo", "courtName", "investigation"}

C13_Merged ==
    LET last == fetchLog'[Len(fetchLog')]
        p == PositionOf(details, last.key)
        payload == The(last.data)
        before == details[p]
        after == details'[p]
        mergerList == OrEmpty(payload.dlt_mrgDpcnSbxLst)
        priorCase == payload.dma_trnscsBfCsInfo
    IN Applies("Success") =>
         /\ after.deliveryRecords = Some(OrEmpty(payload.dlt_dlvrDtsLst))
         /\ after.documentRecords = Some(OrEmpty(payload.dlt_ofdocDtsLst))
         /\ after.mergerRecords =
               IF mergerList # <<>> THEN Some(mergerList) ELSE before.mergerRecords
         /\ after.priorCaseInfo =
               IF priorCase # None /\ The(priorCase) # {} THEN priorCase
               ELSE before.priorCaseInfo
         /\ \A f \in UnrelatedFields : after[f] = before[f]
         /\ Len(details') = Len(details)
         /\ \A q \in 1..Len(details) : q # p => details'[q] = details[q]
         /\ Merge(after, NoMarks(payload)) = after

\* C13: the step that merges a Success overwrites deliveryRecords and
\* documentRecords with the fetched lists (a missing list as empty), writes
\* mergerRecords only from a non-empty list and priorCaseInfo only from a
\* present, non-empty object, changes no other field of the entry and no
\* other entry, and merging the same Success again changes nothing.
C13_MergeRule == [][C13_Merged]_vars

\* A Success with a merger list, a prior case and no delivery list was merged.
C13_Witness ==
    /\ pc \in {"flushP", "delay"}
    /\ Len(fetchLog) > 0
    /\ fetchLog[Len(fetchLog)].out = "Success"
    /\ LET e == details[PositionOf(details, fetchLog[Len(fetchLog)].key)]
       IN /\ e.mergerRecords # None
          /\ e.priorCaseInfo # None
          /\ e.deliveryRecords = Some(<<>>)
          /\ e.courtName = "court"

\* -------------------------------------------------------------------- C14
C14_Settled ==
    LET last == fetchLog'[Len(fetchLog')]
        p == PositionOf(details, last.key)
    IN Applies("Error") =>
         /\ details'[p].deliveryRecords = Some(<<>>)
         /\ details'[p].documentRecords = Some(<<>>)
         /\ last.key \notin Range(progress.completed)
         /\ progress'.completed = Append(progress.completed, last.key)
         /\ errors' = errors + 1
         /\ i' = i
         /\ pc' \in {"flushP", "delay"}

C15_ErrorKeepsBlocks ==
    [][/\ Applies("Error") => consecutiveBlocks' = consecutiveBlocks
       /\ (Applies("Success") \/ Applies("NoData")) => consecutiveBlocks' = 0
       /\ Applies("Blocked") => consecutiveBlocks' = consecutiveBlocks + 1]_vars

\* -------------------------------------------------------------------- C16
C16_Settles ==
    LET last == fetchLog'[Len(fetchLog')]
        p == PositionOf(details, last.key)
    IN /\ Applies("Throw") =>
            /\ errors' = errors + 1
            /\ DoneMarker(details'[p])
            /\ last.key \in Range(progress'.completed)
            /\ pc' \in {"flushP", "delay"}
       /\ LoopCompleted' =>
            \A q \in Range(targets') :
                /\ DoneMarker(details'[q])
                /\ Key(details'[q]) \in Range(progress'.completed)

\* C16: when the fetch call of an item throws, the failure is counted, the
\* item is marked done (both lists present, key in the checkpoint) and the
\* loop goes on; when the loop has completed, every item of the pending
\* list is done.
C16_FailureSettles == [][C16_Settles]_vars

\* -------------------------------------------------------------------- C17
\* C17: once the session refresh after a cooldown has failed, no fetch is
\* issued any more and the run ends with a failure status.
C17_RefreshFailureFatal ==
    [][("refresh" \in Range(faults)) =>
          /\ pc' # "fetching"
          /\ pc' \in {"rejected", "exited"}
          /\ (pc' = "exited" /\ exitPath' # "killed") => exitStatus' # 0]_vars

\* -------------------------------------------------------------------- C18
\* C18: once a write of the checkpoint or of the record store has failed,
\* the run terminates: the step in which the write fails ends the loop, and
\* no fetch is issued afterwards.
C18_WriteFailureStops ==
    [][/\ ("write" \in Range(faults') /\ "write" \notin Range(faults)) =>
             pc' \in {"rejected", "exited"}
       /\ ("write" \in Range(faults)) => pc' # "fetching"]_vars

\* -------------------------------------------------------------------- C19
\* The entries the current run has settled in memory that are not yet, as
\* they are, in both files.
Unflushed ==
    {p \in 1..Len(details) :
        /\ DoneMarker(details[p]) /\ ~DoneMarker(atLaunch.details[p])
        /\ \/ detailsFile.vals[p] # details[p]
           \/ Key(details[p]) \notin FileKeys(progressFile)}

\* At most SAVE_INTERVAL settled items are not yet in the files.
UnflushedBounded == InRun => Cardinality(Unflushed) <= SAVE_INTERVAL

\* In test mode a settled item is in the files before the delay after it.
TestModeFlushed ==
    (InRun /\ TEST_MODE /\ pc \in {"delay", "loop", "fetching"}) => Unflushed = {}

\* C19: at any point of a run at most SAVE_INTERVAL items are settled in
\* memory and not yet in the files, whatever the outcomes; in test mode
\* every settled item is in the files before the delay that follows it.
C19_PeriodicFlush == UnflushedBounded /\ TestModeFlushed

\* -------------------------------------------------------------------- C20
Inflight == {n \in 1..Len(fetchLog) : fetchLog[n].out = "inflight"}

\* C20: at most one fetch is outstanding, it is the latest one issued, the
\* process is then waiting for it (not in a delay, batch rest, cooldown or
\* refresh), and the fetch issued after a Blocked answer below the abort
\* threshold starts after the session refresh has completed.
C20_StrictSequencing ==
    /\ Cardinality(Inflight) <= 1
    /\ Inflight \subseteq {Len(fetchLog)}
    /\ Inflight # {} <=> pc = "fetching"
    /\ \A n \in 2..Len(fetchLog) :
          (/\ fetchLog[n - 1].out = "Blocked"
           /\ fetchLog[n - 1].blocks < MAX_CONSECUTIVE_BLOCKS) =>
              "refresh" \in Range(fetchLog[n].pre)

\* -------------------------------------------------------------------- C21
\* C21: whenever the checkpoint file is read, it holds either the complete
\* previous checkpoint or the complete checkpoint being saved: every step
\* leaves the file as it was or holding the checkpoint of the run.
C21_AtomicCheckpointSave ==
    [][progressFile' = progressFile \/ progressFile' = Some(progress)]_vars

\* -------------------------------------------------------------------- C22
\* C22: a saveDetails of entries into which no outcome was merged since they
\* were loaded writes back the file that was loaded: same shape, same order,
\* same keys mapped to the same entries.
C22_StoreRoundTrip ==
    [][(pc \in {"flushD", "abortD", "finalD"} /\ details = ObjectValues(detailsFile))
       => detailsFile' = detailsFile]_vars

\* -------------------------------------------------------------------- C23
\* The session of the run could not be established: the readiness check
\* answered false, or the navigation threw and main() is rejecting.
SessionFailing ==
    \/ pc = "session" /\ pc' # "loop" /\ ~Exits("killed")
    \/ pc = "rejected" /\ "session" \in Range(faults)

\* C23: when session establishment fails, no fetch has been issued, neither
\* file is modified, and the process ends with a failure status.
C23_NoFetchWithoutSession ==
    [][SessionFailing =>
         /\ fetchLog = <<>> /\ fetchLog' = <<>>
         /\ detailsFile' = detailsFile /\ progressFile' = progressFile
         /\ pc' = "exited" => exitStatus' # 0]_vars

\* -------------------------------------------------------------------- C24
\* What processing a Blocked outcome may not touch: the entries, the completed
\* keys, the counters, the statistics and the item the index designates.
BlockedFrame ==
    /\ details' = details
    /\ progress'.completed = progress.completed
    /\ success' = success /\ errors' = errors
    /\ stats' = stats
    /\ targets' = targets /\ i' = i

\* C24: a Blocked outcome below the abort threshold changes none of them, from
\* the step that applies it through cooldown and refresh, after which the loop
\* is entered again with the same index.
C24_BlockedFrame ==
    [][/\ (Applies("Blocked") /\ ~AbortThreshold(consecutiveBlocks')) =>
            BlockedFrame /\ pc' = "cooldown"
       /\ (pc \in {"cooldown", "refresh"} /\ ~Exits("killed")) =>
            BlockedFrame /\ pc' \in {"refresh", "loop"}]_vars

\* -------------------------------------------------------------------- C25
\* The step issues a fetch.
Issues == pc \in {"loop", "rest"} /\ pc' = "fetching"

Pauses(n) == Range(fetchLog'[n].pre)

\* C25: every fetch but the first of a run is preceded, since the fetch before
\* it, by a pause: the cooldown or the inter-request delay, and the delay when
\* that fetch was not Blocked; and the fetch of an item whose index is a positive
\* multiple of BATCH_REST_INTERVAL is preceded by a batch rest.
C25_Pacing ==
    [][Issues =>
         LET n == Len(fetchLog')
         IN /\ fetchLog # <<>> => Pauses(n) \cap {"delay", "cooldown"} # {}
            /\ (fetchLog # <<>> /\ fetchLog[n - 1].out # "Blocked") =>
                 "delay" \in Pauses(n)
            /\ (i > 0 /\ i % BATCH_REST_INTERVAL = 0) => "rest" \in Pauses(n)]_vars

\* The fetch of the item at index BATCH_REST_INTERVAL is in flight, after the
\* delay that followed the item before it and the batch rest.
C25_Witness ==
    /\ pc = "fetching"
    /\ i = BATCH_REST_INTERVAL
    /\ {"delay", "rest"} \subseteq Range(fetchLog[Len(fetchLog)].pre)

\* -------------------------------------------------------------------- C26
\* The positions that were pending when the run started.
PendingPositions ==
    {p \in 1..Len(atLaunch.details) :
        /\ ~DoneMarker(atLaunch.details[p])
        /\ Key(atLaunch.details[p]) \notin LoadedKeys}

\* C26: the targets of a test-mode run are distinct pending items, at most 3
\* advanced ones followed by at most 2 early ones, and the run fetches only
\* them: at most 5 distinct items, none done or in the loaded checkpoint.
C26_TestSampling ==
    (InRun /\ TEST_MODE) =>
        /\ NoDuplicates(targets)
        /\ Range(targets) \subseteq PendingPositions
        /\ \E a \in 0..3, e \in 0..2 :
             /\ Len(targets) = a + e
             /\ \A k \in 1..a : IsAdvanced(atLaunch.details[targets[k]])
             /\ \A k \in (a + 1)..(a + e) : ~IsAdvanced(atLaunch.details[targets[k]])
        /\ Attempted \subseteq {Key(atLaunch.details[p]) : p \in Range(targets)}
        /\ Cardinality(Attempted) <= 5

\* A test-mode run over a store with more than 3 advanced and more than 2
\* early pending items has fetched 5 of them.
C26_Witness ==
    /\ TEST_MODE /\ LoopCompleted
    /\ Cardinality({p \in PendingPositions : IsAdvanced(atLaunch.details[p])}) > 3
    /\ Cardinality({p \in PendingPositions : ~IsAdvanced(atLaunch.details[p])}) > 2
    /\ Len(targets) = 5
    /\ Cardinality(Attempted) = 5

\* -------------------------------------------------------------------- C27
\* The fetch attempts of the run that have come back, oldest first.
Returned == SelectSeq(fetchLog, LAMBDA f : f.out # "inflight")

\* The number of Blocked outcomes since the last attempt that was not Blocked.
TrailingBlocked ==
    Cardinality({n \in 1..Len(Returned) :
                   \A m \in n..Len(Returned) : Returned[m].out = "Blocked"})

\* C27: the consecutive-block counter is the number of Blocked outcomes since
\* the most recent attempt that ended otherwise (Success, NoData, Error or a
\* thrown exception) or since the run started, and the run is on the abort
\* path only when the last MAX_CONSECUTIVE_BLOCKS attempts were all Blocked.
C27_ConsecutiveBlocks ==
    InRun =>
        /\ consecutiveBlocks = TrailingBlocked
        /\ pc \in {"abortD", "abortP"} => TrailingBlocked >= MAX_CONSECUTIVE_BLOCKS

\* -------------------------------------------------------------------- C28
\* The model stops issuing fetches at MaxFetches: the run is cut there.
Capped ==
    /\ pc \in {"loop", "rest"} /\ i < Len(targets)
    /\ ~Large /\ Len(fetchLog) >= MaxFetches

\* The fetches the run has issued for the item the index designates.
FetchesOfItem ==
    {n \in 1..Len(fetchLog) : fetchLog[n].key = Key(details[targets[i + 1]])}

\* C28: when every call returns, a run ends, and no item is fetched more than
\* MAX_CONSECUTIVE_BLOCKS times in a run: when a
\* fetch is issued, fewer than MAX_CONSECUTIVE_BLOCKS were issued for the item
\* before, and the item is not one the run has settled.
C28_Termination ==
    /\ InRun ~> (pc = "exited" \/ Capped)
    /\ [][Issues =>
            /\ Cardinality(FetchesOfItem) < MAX_CONSECUTIVE_BLOCKS
            /\ \A n \in FetchesOfItem : fetchLog[n].out = "Blocked"]_vars

\* The fifth fetch of the second item of a run is in flight.
C28_Witness ==
    /\ pc = "fetching" /\ i = 1
    /\ Cardinality(FetchesOfItem) = MAX_CONSECUTIVE_BLOCKS

\* -------------------------------------------------------------------- C29
\* The outcomes of the items that have left the loop, one per item.
Left == SelectSeq(fetchLog, LAMBDA f : f.out \in {"Success", "NoData", "Error", "Throw"})

LeftAs(tags) == Cardinality({n \in 1..Len(Left) : Left[n].out \in tags})

\* C29: when the loop has ended, every item that left it is counted in exactly
\* one of success and errors: success is the number of Success and NoData
\* items, and success + errors is the number of items processed.
C29_StatisticsPartition ==
    LoopCompleted =>
        /\ success = LeftAs({"Success", "NoData"})
        /\ success + errors = i

\* -------------------------------------------------------------------- C30
\* The keys the run has appended to the checkpoint it started from.
AppendedKeys ==
    LET loaded == IF RESUME /\ atLaunch.progress # None
                  THEN Len(The(atLaunch.progress).completed) ELSE 0
    IN {progress.completed[n] : n \in (loaded + 1)..Len(progress.completed)}

\* The keys of the fetches of the run that returned a non-blocked result.
SettledKeys == {fetchLog[n].key : n \in {m \in 1..Len(fetchLog) : Settled(m)}}

\* C30: every key the run has appended to the checkpoint is the key of a
\* target of the run whose fetch returned, and the entry the map gives for the
\* key is that target's entry and has both record fields; so no key was
\* appended by the mapping-failure branch.
C30_CheckpointImpliesMarker ==
    InRun =>
        \A k \in AppendedKeys :
            /\ k \in SettledKeys
            /\ \E p \in Range(targets) :
                 /\ Key(details[p]) = k
                 /\ detailMapGet(details, k) = p
                 /\ DoneMarker(details[p])

\* A resumed run has appended the key of a fetched item to a checkpoint that
\* already held a key.
C30_Witness ==
    /\ InRun /\ RESUME
    /\ LoadedKeys # {}
    /\ AppendedKeys # {}

====
